---- MODULE Spec2Model ----
(***************************************************************************)
(* Model of chaincode/drugChaincode.go: the drug supply-chain smart        *)
(* contract (RegisterDrug, ShipDrug, RecallDrug, TrackDrug) running over a *)
(* key-value world state.  Go strings are TLA+ strings; slicing and        *)
(* fmt.Sprintf are modelled with SubSeq and \o on them.                    *)
(***************************************************************************)
EXTENDS Integers, Sequences, FiniteSets, TLC

VARIABLES
    store,   \* world state: drugID -> stored JSON object (absent key = nil)
    height,  \* number of transactions committed to the ledger so far
    log,     \* the committed transactions, in commit order
    inflight,\* transactions simulated by a handler and not yet committed
    prev,    \* the world state as it was when the most recent invocation began
    last     \* the most recent invocation and what it returned

vars == <<store, height, log, inflight, prev, last>>

(***************************************************************************)
(* Bounds and input sets                                                   *)
(***************************************************************************)
MaxTx == 3
MaxInflight == 2

DrugIDs == {"DRUG-1", "DRUG-2"}
MSPIDs == {"CiplaMSP", "CDSCOMSP", "MedlifeMSP", "Cipla"}
Destinations == {"Medlife", "A|B"}
Names == {"ParacetamolX"}
BatchNumbers == {"B100"}
MfgDates == {"2024-01-01"}
ExpiryDates == {"2026-01-01"}
Compositions == {"Paracetamol 500mg"}
Reasons == {"contamination"}
StoreFaults == {"none", "get", "put"}
\* a handler that sets an event can also meet a SetEvent that fails
Faults == StoreFaults \cup {"event"}

\* what ctx.GetClientIdentity().GetMSPID() can hand back: an MSP ID, or an error
Identities ==
    {[mspID |-> m, err |-> FALSE] : m \in MSPIDs} \cup {[mspID |-> "", err |-> TRUE]}

(***************************************************************************)
(* Return values                                                           *)
(***************************************************************************)
ManufacturerMSP == "CiplaMSP"
RegulatorMSP == "CDSCOMSP"

NoError == "nil"
ErrRegister == "only Cipla (Manufacturer) can register drugs"
ErrShip == "only the current owner can ship this drug"
ErrRecall == "only CDSCO (Regulator) can recall drugs"
ErrGetState == "GetState failed"
ErrPutState == "PutState failed"
PanicSlice == "panic: runtime error: slice bounds out of range"

ErrExists(drugID) == "drug with ID " \o drugID \o " already exists"
ErrNotFound(drugID) == "drug " \o drugID \o " not found"

(***************************************************************************)
(* The Drug struct and its JSON encoding                                   *)
(***************************************************************************)
\* a Go []string encoded by encoding/json: a nil slice becomes null
MarshalSlice(s) == [null |-> s = <<>>, items |-> s]
UnmarshalSlice(j) == IF j.null THEN <<>> ELSE j.items

Marshal(drug) ==
    [drugId          |-> drug.DrugID,
     name            |-> drug.Name,
     manufacturer    |-> drug.Manufacturer,
     batchNumber     |-> drug.BatchNumber,
     mfgDate         |-> drug.MfgDate,
     expiryDate      |-> drug.ExpiryDate,
     composition     |-> drug.Composition,
     currentOwner    |-> drug.CurrentOwner,
     status          |-> drug.Status,
     history         |-> MarshalSlice(drug.History),
     isRecalled      |-> drug.IsRecalled,
     inspectionNotes |-> MarshalSlice(drug.InspectionNotes)]

Unmarshal(bytes) ==
    [DrugID          |-> bytes.drugId,
     Name            |-> bytes.name,
     Manufacturer    |-> bytes.manufacturer,
     BatchNumber     |-> bytes.batchNumber,
     MfgDate         |-> bytes.mfgDate,
     ExpiryDate      |-> bytes.expiryDate,
     Composition     |-> bytes.composition,
     CurrentOwner    |-> bytes.currentOwner,
     Status          |-> bytes.status,
     History         |-> UnmarshalSlice(bytes.history),
     IsRecalled      |-> bytes.isRecalled,
     InspectionNotes |-> UnmarshalSlice(bytes.inspectionNotes)]

\* fmt.Sprintf("%s|%s|%s|%s|%s", ...): the history line of the struct comment
HistoryEntry(ts, event, from, to, details) ==
    ts \o "|" \o event \o "|" \o from \o "|" \o to \o "|" \o details

\* fmt.Sprintf("%s: %s", getTimestamp(), reason)
NoteEntry(ts, reason) == ts \o ": " \o reason

\* mspID[:len(mspID)-3]
TrimMSP(mspID) == SubSeq(mspID, 1, Len(mspID) - 3)

(***************************************************************************)
(* Reading a history line back: "timestamp|event|from|to|details"          *)
(***************************************************************************)
RECURSIVE IndexPipe(_, _)
IndexPipe(s, i) ==
    IF i > Len(s) THEN 0
    ELSE IF SubSeq(s, i, i) = "|" THEN i
    ELSE IndexPipe(s, i + 1)

RECURSIVE SplitN(_, _)
SplitN(s, n) ==
    LET i == IndexPipe(s, 1) IN
    IF n <= 1 \/ i = 0 THEN <<s>>
    ELSE <<SubSeq(s, 1, i - 1)>> \o SplitN(SubSeq(s, i + 1, Len(s)), n - 1)

Fields(entry) == SplitN(entry, 5)
EventKind(entry) == Fields(entry)[2]
FromParty(entry) == Fields(entry)[3]
ToParty(entry) == Fields(entry)[4]
Detail(entry) == Fields(entry)[5]

(***************************************************************************)
(* World state access                                                      *)
(***************************************************************************)
Exists(drugID) == drugID \in DOMAIN store
PutState(drugID, bytes) ==
    [k \in DOMAIN store \cup {drugID} |-> IF k = drugID THEN bytes ELSE store[k]]

CommittedBeforeValidation(result) ==
    result = NoError \/ result = ErrShip \/ result = ErrRecall \/ result = ErrRegister

\* an invocation's write set reaches the ledger only when the handler returns nil
Committed(result) == result = NoError

Call(op, id, drugID, args, fault, result, event, data) ==
    [op |-> op, mspID |-> id.mspID, idErr |-> id.err, drugID |-> drugID,
     args |-> args, fault |-> fault, result |-> result, event |-> event, data |-> data]

\* what a committed transaction leaves in the ledger: the key it wrote and the
\* history line its handler appended
LogEntry(call, written) ==
    LET history == Unmarshal(written[call.drugID]).History IN
    [drugID |-> call.drugID, op |-> call.op, entry |-> history[Len(history)]]

\* the bookkeeping every invocation shares: the ledger grows by one transaction
\* when the invocation commits
Invoke(call, written) ==
    /\ Committed(call.result) => height < MaxTx
    /\ height' = IF Committed(call.result) THEN height + 1 ELSE height
    /\ log' = IF Committed(call.result) THEN Append(log, LogEntry(call, written)) ELSE log
    /\ inflight' = inflight
    /\ prev' = store
    /\ last' = call
    /\ store' = IF Committed(call.result) THEN written ELSE store

Init ==
    /\ store = << >>
    /\ height = 0
    /\ log = << >>
    /\ inflight = {}
    /\ prev = << >>
    /\ last = Call("none", [mspID |-> "", err |-> FALSE], "", <<>>, "none", NoError, "", {})

\* time.Now().Format("2006-01-02 15:04:05"): the wall clock, which reads one
\* second later for every transaction the ledger has committed
getTimestamp == "2024-05-01 10:00:0" \o ToString(height)

(***************************************************************************)
(* RegisterDrug                                                            *)
(***************************************************************************)
NewDrugWithoutBatchDetail(drugID, name, batchNumber, mfgDate, expiryDate, composition) ==
    [DrugID          |-> drugID,
     Name            |-> name,
     Manufacturer    |-> "Cipla",
     BatchNumber     |-> batchNumber,
     MfgDate         |-> mfgDate,
     ExpiryDate      |-> expiryDate,
     Composition     |-> composition,
     CurrentOwner    |-> "Cipla",
     Status          |-> "InProduction",
     History         |-> <<HistoryEntry(getTimestamp, "Created", "Cipla", "-", "")>>,
     IsRecalled      |-> FALSE,
     InspectionNotes |-> <<>>]

NewDrug(drugID, name, batchNumber, mfgDate, expiryDate, composition) ==
    [DrugID          |-> drugID,
     Name            |-> name,
     Manufacturer    |-> "Cipla",
     BatchNumber     |-> batchNumber,
     MfgDate         |-> mfgDate,
     ExpiryDate      |-> expiryDate,
     Composition     |-> composition,
     CurrentOwner    |-> "Cipla",
     Status          |-> "InProduction",
     History         |-> <<HistoryEntry(getTimestamp, "Created", "Cipla", "-",
                                        "Batch: " \o batchNumber)>>,
     IsRecalled      |-> FALSE,
     InspectionNotes |-> <<>>]

RegisterAuthorized(id) == ~id.err /\ id.mspID = ManufacturerMSP

RegisterResultNoExistenceCheck(id, drugID, fault) ==
    IF ~RegisterAuthorized(id) THEN ErrRegister
    ELSE IF fault = "get" THEN ErrGetState
    ELSE IF fault = "put" THEN ErrPutState
    ELSE NoError

RegisterResult(id, drugID, fault) ==
    IF ~RegisterAuthorized(id) THEN ErrRegister
    ELSE IF fault = "get" THEN ErrGetState
    ELSE IF Exists(drugID) THEN ErrExists(drugID)
    ELSE IF fault = "put" THEN ErrPutState
    ELSE NoError

RegisterDrug(id, drugID, name, batchNumber, mfgDate, expiryDate, composition, fault) ==
    LET drug == NewDrug(drugID, name, batchNumber, mfgDate, expiryDate, composition)
        args == <<name, batchNumber, mfgDate, expiryDate, composition>>
    IN Invoke(Call("RegisterDrug", id, drugID, args, fault,
                   RegisterResult(id, drugID, fault), "", {}),
              PutState(drugID, Marshal(drug)))

Register ==
    \E id \in Identities, drugID \in DrugIDs, name \in Names, batchNumber \in BatchNumbers,
       mfgDate \in MfgDates, expiryDate \in ExpiryDates, composition \in Compositions,
       fault \in StoreFaults :
        RegisterDrug(id, drugID, name, batchNumber, mfgDate, expiryDate, composition, fault)

(***************************************************************************)
(* ShipDrug                                                                *)
(***************************************************************************)
ShippedClearsRecall(drug, to) ==
    LET from == drug.CurrentOwner IN
    [drug EXCEPT !.CurrentOwner = to,
                 !.Status = "InTransit",
                 !.IsRecalled = FALSE,
                 !.History = Append(@, HistoryEntry(getTimestamp, "Shipped", from, to, ""))]

ShippedRelabelsManufacturer(drug, to) ==
    LET from == drug.CurrentOwner IN
    [drug EXCEPT !.CurrentOwner = to,
                 !.Manufacturer = to,
                 !.Status = "InTransit",
                 !.History = Append(@, HistoryEntry(getTimestamp, "Shipped", from, to, ""))]

ShippedBackToProduction(drug, to) ==
    LET from == drug.CurrentOwner IN
    [drug EXCEPT !.CurrentOwner = to,
                 !.Status = "InProduction",
                 !.History = Append(@, HistoryEntry(getTimestamp, "Shipped", from, to, ""))]

Shipped(drug, to) ==
    LET from == drug.CurrentOwner IN
    [drug EXCEPT !.CurrentOwner = to,
                 !.Status = "InTransit",
                 !.History = Append(@, HistoryEntry(getTimestamp, "Shipped", from, to, ""))]

IsCurrentOwnerExact(drug, mspID) == drug.CurrentOwner = mspID

\* the comparison of the owner check, for an MSP ID long enough to be sliced
IsCurrentOwner(drug, mspID) == drug.CurrentOwner = TrimMSP(mspID)

\* getMSPID's error is dropped, so a failed lookup leaves the empty MSP ID
ShipResult(id, drugID, fault) ==
    IF fault = "get" \/ ~Exists(drugID) THEN ErrNotFound(drugID)
    ELSE IF Len(id.mspID) < 3 THEN PanicSlice
    ELSE IF ~IsCurrentOwner(Unmarshal(store[drugID]), id.mspID) THEN ErrShip
    ELSE IF fault = "put" THEN ErrPutState
    ELSE NoError

\* SetEvent is reached once the owner check has passed; its error is dropped
ShipEvent(result, fault) ==
    IF result \in {NoError, ErrPutState} /\ fault # "event" THEN "DrugShipped" ELSE ""

ShipDrug(id, drugID, to, fault) ==
    LET result == ShipResult(id, drugID, fault)
        event == ShipEvent(result, fault)
    IN Invoke(Call("ShipDrug", id, drugID, <<to>>, fault, result, event, {}),
              IF Exists(drugID)
              THEN PutState(drugID, Marshal(Shipped(Unmarshal(store[drugID]), to)))
              ELSE store)

Ship ==
    \E id \in Identities, drugID \in DrugIDs, to \in Destinations, fault \in Faults :
        ShipDrug(id, drugID, to, fault)

(***************************************************************************)
(* RecallDrug                                                              *)
(***************************************************************************)
RecalledPrepends(drug, reason) ==
    [drug EXCEPT !.IsRecalled = TRUE,
                 !.Status = "Recalled",
                 !.InspectionNotes = Append(@, NoteEntry(getTimestamp, reason)),
                 !.History = <<HistoryEntry(getTimestamp, "Recalled", "CDSCO", "-",
                                            "Reason: " \o reason)>> \o @]

RecalledTakesCustody(drug, reason) ==
    [drug EXCEPT !.IsRecalled = TRUE,
                 !.Status = "Recalled",
                 !.CurrentOwner = "CDSCO",
                 !.InspectionNotes = Append(@, NoteEntry(getTimestamp, reason)),
                 !.History = Append(@, HistoryEntry(getTimestamp, "Recalled", "CDSCO", "-",
                                                    "Reason: " \o reason))]

Recalled(drug, reason) ==
    [drug EXCEPT !.IsRecalled = TRUE,
                 !.Status = "Recalled",
                 !.InspectionNotes = Append(@, NoteEntry(getTimestamp, reason)),
                 !.History = Append(@, HistoryEntry(getTimestamp, "Recalled", "CDSCO", "-",
                                                    "Reason: " \o reason))]

RecallAuthorizedForManufacturer(id) ==
    ~id.err /\ (id.mspID = RegulatorMSP \/ id.mspID = ManufacturerMSP)

RecallAuthorized(id) == ~id.err /\ id.mspID = RegulatorMSP

RecallResultExistenceFirst(id, drugID, fault) ==
    IF fault = "get" \/ ~Exists(drugID) THEN ErrNotFound(drugID)
    ELSE IF ~RecallAuthorized(id) THEN ErrRecall
    ELSE IF fault = "put" THEN ErrPutState
    ELSE NoError

RecallResult(id, drugID, fault) ==
    IF ~RecallAuthorized(id) THEN ErrRecall
    ELSE IF fault = "get" \/ ~Exists(drugID) THEN ErrNotFound(drugID)
    ELSE IF fault = "put" THEN ErrPutState
    ELSE NoError

RecallEventCopiedFromShip(result, fault) ==
    IF result \in {NoError, ErrPutState} /\ fault # "event" THEN "DrugShipped" ELSE ""

\* SetEvent is reached once the record has been found; its error is dropped
RecallEvent(result, fault) ==
    IF result \in {NoError, ErrPutState} /\ fault # "event" THEN "DrugRecalled" ELSE ""

RecallDrug(id, drugID, reason, fault) ==
    LET result == RecallResult(id, drugID, fault)
        event == RecallEvent(result, fault)
    IN Invoke(Call("RecallDrug", id, drugID, <<reason>>, fault, result, event, {}),
              IF Exists(drugID)
              THEN PutState(drugID, Marshal(Recalled(Unmarshal(store[drugID]), reason)))
              ELSE store)

Recall ==
    \E id \in Identities, drugID \in DrugIDs, reason \in Reasons, fault \in Faults :
        RecallDrug(id, drugID, reason, fault)

(***************************************************************************)
(* TrackDrug                                                               *)
(***************************************************************************)
TrackResultHidesRecalled(drugID, fault) ==
    IF fault = "get" \/ ~Exists(drugID) THEN ErrNotFound(drugID)
    ELSE IF Unmarshal(store[drugID]).IsRecalled THEN ErrNotFound(drugID)
    ELSE NoError

TrackResult(drugID, fault) ==
    IF fault = "get" \/ ~Exists(drugID) THEN ErrNotFound(drugID) ELSE NoError

\* a query: it returns the stored bytes and submits nothing to the ledger
TrackDrug(id, drugID, fault) ==
    LET result == TrackResult(drugID, fault)
        data == IF result = NoError THEN {store[drugID]} ELSE {}
    IN /\ last' = Call("TrackDrug", id, drugID, <<>>, fault, result, "", data)
       /\ prev' = store
       /\ UNCHANGED <<store, height, log, inflight>>

Track ==
    \E id \in Identities, drugID \in DrugIDs, fault \in {"none", "get"} :
        TrackDrug(id, drugID, fault)

\* the event a transaction has set is delivered when the transaction commits
Emitted(call) == IF Committed(call.result) THEN call.event ELSE ""

Next == Register \/ Ship \/ Recall \/ Track

Spec == Init /\ [][Next]_vars

(***************************************************************************)
(* Concurrent submission.  A handler runs against the committed world      *)
(* state and produces the keys it read, with their versions, and the bytes *)
(* it wants written; the transaction commits later, after others may have *)
(* committed, and the store commits it only if every key it read still has *)
(* the version it read.                                                    *)
(***************************************************************************)
ConcurrentIDs == {"DRUG-1"}
ErrConflict == "MVCC_READ_CONFLICT"

\* the version of a key: the position in the ledger of the last write to it
Version(key) ==
    LET writes == {i \in 1..Len(log) : log[i].drugID = key} IN
    IF writes = {} THEN 0 ELSE CHOOSE i \in writes : \A j \in writes : j <= i

\* the keys each handler reads with GetState before it writes
RegisterReads(drugID) == {drugID}
ShipReadsNothing(drugID) == {}
ShipReads(drugID) == {drugID}
RecallReads(drugID) == {drugID}

Proposal(call, keys, bytes) ==
    [call |-> call, reads |-> {[key |-> k, version |-> Version(k)] : k \in keys},
     bytes |-> bytes]

\* every submitted transaction has its own transaction ID
Endorse(proposal) ==
    /\ proposal.call.result = NoError
    /\ \E tx \in 1..MaxInflight :
          /\ \A p \in inflight : p.tx # tx
          /\ inflight' = inflight \cup {[tx |-> tx, call |-> proposal.call,
                                         reads |-> proposal.reads, bytes |-> proposal.bytes]}
    /\ UNCHANGED <<store, height, log, prev, last>>

EndorseRegister ==
    \E id \in Identities, drugID \in ConcurrentIDs, name \in Names,
       batchNumber \in BatchNumbers, mfgDate \in MfgDates, expiryDate \in ExpiryDates,
       composition \in Compositions :
        Endorse(Proposal(
            Call("RegisterDrug", id, drugID,
                 <<name, batchNumber, mfgDate, expiryDate, composition>>, "none",
                 RegisterResult(id, drugID, "none"), "", {}),
            RegisterReads(drugID),
            Marshal(NewDrug(drugID, name, batchNumber, mfgDate, expiryDate, composition))))

EndorseShip ==
    \E id \in Identities, drugID \in ConcurrentIDs, to \in Destinations :
        /\ Exists(drugID)
        /\ Endorse(Proposal(
               Call("ShipDrug", id, drugID, <<to>>, "none",
                    ShipResult(id, drugID, "none"), "DrugShipped", {}),
               ShipReads(drugID),
               Marshal(Shipped(Unmarshal(store[drugID]), to))))

EndorseRecall ==
    \E id \in Identities, drugID \in ConcurrentIDs, reason \in Reasons :
        /\ Exists(drugID)
        /\ Endorse(Proposal(
               Call("RecallDrug", id, drugID, <<reason>>, "none",
                    RecallResult(id, drugID, "none"), "DrugRecalled", {}),
               RecallReads(drugID),
               Marshal(Recalled(Unmarshal(store[drugID]), reason))))

Valid(proposal) == \A r \in proposal.reads : Version(r.key) = r.version

CommitTx ==
    \E p \in inflight :
        LET written == PutState(p.call.drugID, p.bytes) IN
        /\ Valid(p) => height < MaxTx
        /\ inflight' = inflight \ {p}
        /\ prev' = store
        /\ store' = IF Valid(p) THEN written ELSE store
        /\ height' = IF Valid(p) THEN height + 1 ELSE height
        /\ log' = IF Valid(p) THEN Append(log, LogEntry(p.call, written)) ELSE log
        /\ last' = IF Valid(p) THEN p.call ELSE [p.call EXCEPT !.result = ErrConflict]

NextMVCC == EndorseRegister \/ EndorseShip \/ EndorseRecall \/ CommitTx

SpecMVCC == Init /\ [][NextMVCC]_vars

(***************************************************************************)
(* Vocabulary of the properties                                            *)
(***************************************************************************)
\* the decoded record of drugID in world state s
Rec(s, drugID) == Unmarshal(s[drugID])

\* the record the last invocation addressed, before and after it
Before == Rec(prev, last.drugID)
After == Rec(store, last.drugID)
Addressed == last.drugID \in DOMAIN prev

CallerIs(mspID) == ~last.idErr /\ last.mspID = mspID
Succeeded == last.result = NoError

\* the error kind a returned message stands for
Kind(result, drugID) ==
    IF result = NoError THEN "OK"
    ELSE IF result \in {ErrRegister, ErrShip, ErrRecall} THEN "Unauthorized"
    ELSE IF result = ErrExists(drugID) THEN "AlreadyExists"
    ELSE IF result = ErrNotFound(drugID) THEN "NotFound"
    ELSE IF result \in {ErrGetState, ErrPutState} THEN "StoreUnavailable"
    ELSE "Abort"
LastKind == Kind(last.result, last.drugID)

IsPrefix(h1, h2) == Len(h1) <= Len(h2) /\ SubSeq(h2, 1, Len(h1)) = h1

\* every field of the record but the named ones is as it was
SameExcept(before, after, fields) ==
    \A f \in (DOMAIN before) \ fields : after[f] = before[f]

OthersUnchanged ==
    /\ DOMAIN store \ {last.drugID} = DOMAIN prev \ {last.drugID}
    /\ \A k \in DOMAIN prev \ {last.drugID} : store[k] = prev[k]

(***************************************************************************)
(* C1: at most one RegisterDrug per drug ID ever succeeds.  No record ever *)
(* leaves the world state; a RegisterDrug on an ID that already has a      *)
(* record never succeeds and leaves the world state as it was, and when    *)
(* the caller is the manufacturer and the store answers it is rejected as  *)
(* AlreadyExists; the manufacturer's RegisterDrug on a free ID succeeds.   *)
(***************************************************************************)
C1_CreateExactlyOnce ==
    /\ DOMAIN prev \subseteq DOMAIN store
    /\ last.op = "RegisterDrug" =>
          /\ Addressed =>
                /\ ~Succeeded
                /\ store = prev
                /\ (CallerIs(ManufacturerMSP) /\ last.fault # "get")
                      => LastKind = "AlreadyExists"
          /\ (~Addressed /\ CallerIs(ManufacturerMSP) /\ last.fault = "none")
                => (Succeeded /\ last.drugID \in DOMAIN store)

C1_Witness ==
    /\ last.op = "RegisterDrug"
    /\ Addressed
    /\ CallerIs(ManufacturerMSP)
    /\ LastKind = "AlreadyExists"
    /\ Len(Before.History) >= 2

C3_RecalledFlagMonotonic ==
    \A k \in DOMAIN prev :
        Rec(prev, k).IsRecalled => (k \in DOMAIN store /\ Rec(store, k).IsRecalled)

C3_Witness ==
    /\ last.op = "ShipDrug"
    /\ Addressed
    /\ Succeeded
    /\ Before.IsRecalled
    /\ After.IsRecalled

(***************************************************************************)
(* C4: the status Recalled is absorbing.  A record whose Status was        *)
(* Recalled when an invocation began has Status Recalled when it ends.     *)
(***************************************************************************)
C4_RecalledStatusAbsorbing ==
    \A k \in DOMAIN prev :
        Rec(prev, k).Status = "Recalled"
            => (k \in DOMAIN store /\ Rec(store, k).Status = "Recalled")

(***************************************************************************)
(* C5: history is append-only.  The history a record had when an           *)
(* invocation began is a prefix of the history it has when it ends.        *)
(***************************************************************************)
C5_HistoryAppendOnly ==
    \A k \in DOMAIN prev :
        /\ k \in DOMAIN store
        /\ IsPrefix(Rec(prev, k).History, Rec(store, k).History)

C5_Witness ==
    /\ last.op = "RecallDrug"
    /\ Addressed
    /\ Succeeded
    /\ Len(Before.History) >= 2
    /\ Len(After.History) = Len(Before.History) + 1

(***************************************************************************)
(* C6: on an existing record RecallDrug succeeds if and only if the caller *)
(* is the regulator, whatever the record's owner, status or recalled flag: *)
(* any other caller is rejected as Unauthorized and changes nothing, and   *)
(* the regulator succeeds whenever the store answers.                      *)
(***************************************************************************)
C6_RecallIffRegulator ==
    (last.op = "RecallDrug" /\ Addressed) =>
        /\ Succeeded => CallerIs(RegulatorMSP)
        /\ ~CallerIs(RegulatorMSP) => (LastKind = "Unauthorized" /\ store = prev)
        /\ (CallerIs(RegulatorMSP) /\ last.fault \notin {"get", "put"}) => Succeeded

C6_Witness ==
    /\ last.op = "RecallDrug"
    /\ Addressed
    /\ Succeeded
    /\ Before.IsRecalled
    /\ Before.Status = "Recalled"

(***************************************************************************)
(* C7: a ShipDrug on a record whose IsRecalled is true is rejected and     *)
(* leaves the record as it was; when the caller is the current owner the   *)
(* rejection is of kind InvalidState.                                      *)
(***************************************************************************)
C7_TransferOfRecalledRejected ==
    (last.op = "ShipDrug" /\ Addressed /\ Before.IsRecalled) =>
        /\ ~Succeeded
        /\ store = prev
        /\ (last.fault = "none" /\ Len(last.mspID) >= 3
                /\ SubSeq(last.mspID, 1, Len(last.mspID) - 3) = Before.CurrentOwner)
              => LastKind = "InvalidState"

(***************************************************************************)
(* C8: every invocation that returns an error leaves the world state       *)
(* exactly as it was: no record is created and no stored record changes.   *)
(***************************************************************************)
C8_RejectionWritesNothing ==
    ~Succeeded => store = prev

C8_Witness ==
    /\ last.op = "ShipDrug"
    /\ Addressed
    /\ LastKind = "Unauthorized"
    /\ CallerIs(RegulatorMSP)
    /\ store = prev

(***************************************************************************)
(* C9: RegisterDrug succeeds only for the manufacturer, any other caller   *)
(* is rejected as Unauthorized, and a successful RegisterDrug stores a     *)
(* record carrying the given attributes with Status InProduction,          *)
(* CurrentOwner the manufacturer, IsRecalled false, no inspection notes    *)
(* and a history of exactly one Created event whose to-party is "-" and    *)
(* whose detail carries the batch number.                                  *)
(***************************************************************************)
C9_CreateResult ==
    last.op = "RegisterDrug" =>
        /\ Succeeded => CallerIs(ManufacturerMSP)
        /\ ~CallerIs(ManufacturerMSP) => LastKind = "Unauthorized"
        /\ Succeeded =>
              /\ ~Addressed
              /\ last.drugID \in DOMAIN store
              /\ After.DrugID = last.drugID
              /\ <<After.Name, After.BatchNumber, After.MfgDate,
                   After.ExpiryDate, After.Composition>> = last.args
              /\ After.Status = "InProduction"
              /\ After.Manufacturer = "Cipla"
              /\ After.CurrentOwner = After.Manufacturer
              /\ After.IsRecalled = FALSE
              /\ After.InspectionNotes = <<>>
              /\ Len(After.History) = 1
              /\ EventKind(After.History[1]) = "Created"
              /\ FromParty(After.History[1]) = After.Manufacturer
              /\ ToParty(After.History[1]) = "-"
              /\ Detail(After.History[1]) = "Batch: " \o last.args[2]
              /\ OthersUnchanged

C9_Witness ==
    /\ last.op = "RegisterDrug"
    /\ Succeeded
    /\ DOMAIN prev # {}
    /\ DOMAIN store = DrugIDs

(***************************************************************************)
(* C10: a successful ShipDrug to destination d sets CurrentOwner to d and  *)
(* Status to InTransit, appends exactly one history event of kind Shipped  *)
(* whose from-party is the owner before the call and whose to-party is d,  *)
(* and changes no other field of the record and no other record.           *)
(***************************************************************************)
C10_TransferResult ==
    (last.op = "ShipDrug" /\ Succeeded) =>
        /\ Addressed
        /\ After.CurrentOwner = last.args[1]
        /\ After.Status = "InTransit"
        /\ Len(After.History) = Len(Before.History) + 1
        /\ IsPrefix(Before.History, After.History)
        /\ EventKind(After.History[Len(After.History)]) = "Shipped"
        /\ FromParty(After.History[Len(After.History)]) = Before.CurrentOwner
        /\ ToParty(After.History[Len(After.History)]) = last.args[1]
        /\ SameExcept(Before, After, {"CurrentOwner", "Status", "History"})
        /\ OthersUnchanged
(***************************************************************************)
(* C11: a successful RecallDrug, first or repeated, sets IsRecalled to     *)
(* true and Status to Recalled, appends exactly one inspection note and    *)
(* exactly one history event of kind Recalled whose from-party is the      *)
(* regulator and whose to-party is "-", and changes no other field of the  *)
(* record and no other record; CurrentOwner of a record changes only in a  *)
(* successful ShipDrug on that record.                                     *)
(***************************************************************************)
C11_RecallResult ==
    /\ (last.op = "RecallDrug" /\ Succeeded) =>
          /\ Addressed
          /\ After.IsRecalled = TRUE
          /\ After.Status = "Recalled"
          /\ Len(After.InspectionNotes) = Len(Before.InspectionNotes) + 1
          /\ IsPrefix(Before.InspectionNotes, After.InspectionNotes)
          /\ Len(After.History) = Len(Before.History) + 1
          /\ IsPrefix(Before.History, After.History)
          /\ EventKind(After.History[Len(After.History)]) = "Recalled"
          /\ FromParty(After.History[Len(After.History)]) = TrimMSP(RegulatorMSP)
          /\ ToParty(After.History[Len(After.History)]) = "-"
          /\ Detail(After.History[Len(After.History)]) = "Reason: " \o last.args[1]
          /\ SameExcept(Before, After,
                        {"IsRecalled", "Status", "InspectionNotes", "History"})
          /\ OthersUnchanged
    /\ \A k \in DOMAIN prev :
          Rec(store, k).CurrentOwner # Rec(prev, k).CurrentOwner
              => (last.op = "ShipDrug" /\ Succeeded /\ last.drugID = k)

C11_Witness ==
    /\ last.op = "RecallDrug"
    /\ Succeeded
    /\ Addressed
    /\ Before.IsRecalled
    /\ Len(After.InspectionNotes) = 2

(***************************************************************************)
(* C12: the creation attributes of a record (DrugID, Name, Manufacturer,   *)
(* BatchNumber, MfgDate, ExpiryDate, Composition) are never changed: every *)
(* record that existed when an invocation began carries the same           *)
(* attributes when it ends, the record being stored under its own DrugID.  *)
(***************************************************************************)
CreationAttributes(drug) ==
    <<drug.DrugID, drug.Name, drug.Manufacturer, drug.BatchNumber,
      drug.MfgDate, drug.ExpiryDate, drug.Composition>>

C13_AbsentIsNotFoundForAnyCaller ==
    (last.op \in {"ShipDrug", "RecallDrug", "TrackDrug"} /\ ~Addressed) =>
        /\ LastKind = "NotFound"
        /\ store = prev

(***************************************************************************)
(* C13 amended: on a drug ID that has no record, ShipDrug and TrackDrug    *)
(* fail as NotFound whatever the caller; RecallDrug fails as NotFound when *)
(* the caller is the regulator and as Unauthorized for every other caller, *)
(* whose role is checked before the record is looked up.  In every case no *)
(* record is created.                                                      *)
(***************************************************************************)
C13_AbsentIsNotFoundAfterRoleCheck ==
    (last.op \in {"ShipDrug", "RecallDrug", "TrackDrug"} /\ ~Addressed) =>
        /\ last.op \in {"ShipDrug", "TrackDrug"} => LastKind = "NotFound"
        /\ (last.op = "RecallDrug" /\ CallerIs(RegulatorMSP)) => LastKind = "NotFound"
        /\ (last.op = "RecallDrug" /\ ~CallerIs(RegulatorMSP)) => LastKind = "Unauthorized"
        /\ store = prev
        /\ last.drugID \notin DOMAIN store

C13_Witness ==
    /\ last.op = "RecallDrug"
    /\ ~Addressed
    /\ CallerIs(RegulatorMSP)
    /\ last.fault = "none"
    /\ LastKind = "NotFound"
    /\ DOMAIN store # {}

(***************************************************************************)
(* C14: TrackDrug on an existing drug ID returns the stored record as it   *)
(* is, to any caller and without consulting the caller's identity, unless  *)
(* the store fails to answer; a TrackDrug changes nothing in the world     *)
(* state.                                                                  *)
(***************************************************************************)
C14_ReadReturnsRecordUnchanged ==
    last.op = "TrackDrug" =>
        /\ store = prev
        /\ (Addressed /\ last.fault = "none") =>
              (Succeeded /\ last.data = {prev[last.drugID]})
        /\ Succeeded => (Addressed /\ last.data = {store[last.drugID]})

C14_Witness ==
    /\ last.op = "TrackDrug"
    /\ Succeeded
    /\ last.idErr
    /\ Before.IsRecalled
    /\ last.data = {store[last.drugID]}
(***************************************************************************)
(* C15: a collaborator failure met by an invocation is reported as such:   *)
(* an identity lookup that fails as IdentityUnavailable, a GetState or     *)
(* PutState that fails as StoreUnavailable, never as Unauthorized or       *)
(* NotFound and never by aborting the handler, and the world state is left *)
(* as it was.                                                              *)
(***************************************************************************)
\* the handler got as far as looking the caller up, and the lookup failed
IdentityFailed ==
    /\ last.idErr
    /\ \/ last.op \in {"RegisterDrug", "RecallDrug"}
       \/ last.op = "ShipDrug" /\ Addressed /\ last.fault # "get"

\* the handler got as far as GetState, and it failed
GetStateFailed ==
    /\ last.fault = "get"
    /\ \/ last.op \in {"ShipDrug", "TrackDrug"}
       \/ last.op = "RegisterDrug" /\ CallerIs(ManufacturerMSP)
       \/ last.op = "RecallDrug" /\ CallerIs(RegulatorMSP)

\* the handler got as far as PutState, and it failed
PutStateFailed ==
    /\ last.fault = "put"
    /\ \/ last.op = "RegisterDrug" /\ CallerIs(ManufacturerMSP) /\ ~Addressed
       \/ last.op = "RecallDrug" /\ CallerIs(RegulatorMSP) /\ Addressed
       \/ /\ last.op = "ShipDrug" /\ Addressed /\ Len(last.mspID) >= 3
          /\ SubSeq(last.mspID, 1, Len(last.mspID) - 3) = Before.CurrentOwner

C15_CollaboratorFailureReported ==
    /\ IdentityFailed => (LastKind = "IdentityUnavailable" /\ store = prev)
    /\ (GetStateFailed \/ PutStateFailed) => (LastKind = "StoreUnavailable" /\ store = prev)
    /\ (last.op = "ShipDrug" /\ Len(last.mspID) < 3) => LastKind # "Abort"
(***************************************************************************)
(* C17 as stated: a committed ShipDrug delivers the event                  *)
(* "CustodyTransferred" and a committed RecallDrug the event               *)
(* "BatchRecalled", unless setting the event failed; an invocation that    *)
(* returns an error delivers none, RegisterDrug and TrackDrug deliver      *)
(* none, and a SetEvent that fails does not keep the state change from     *)
(* committing.                                                             *)
(***************************************************************************)
\* the handler passes every check and the store answers, whatever SetEvent does
ShipPermitted ==
    /\ last.op = "ShipDrug" /\ Addressed /\ last.fault \notin {"get", "put"}
    /\ Len(last.mspID) >= 3
    /\ SubSeq(last.mspID, 1, Len(last.mspID) - 3) = Before.CurrentOwner
RecallPermitted ==
    /\ last.op = "RecallDrug" /\ Addressed /\ last.fault \notin {"get", "put"}
    /\ CallerIs(RegulatorMSP)

C17_NotificationAsNamedInSpec ==
    /\ (last.op = "ShipDrug" /\ Succeeded /\ last.fault # "event")
          => Emitted(last) = "CustodyTransferred"
    /\ (last.op = "RecallDrug" /\ Succeeded /\ last.fault # "event")
          => Emitted(last) = "BatchRecalled"
    /\ ~Succeeded => Emitted(last) = ""
    /\ last.op \in {"RegisterDrug", "TrackDrug"} => Emitted(last) = ""
    /\ (ShipPermitted \/ RecallPermitted) => (Succeeded /\ store # prev)

(***************************************************************************)
(* C17 amended: the same, with the events named as the code names them:    *)
(* "DrugShipped" for a committed ShipDrug and "DrugRecalled" for a         *)
(* committed RecallDrug.                                                   *)
(***************************************************************************)
C17_NotificationAsNamedInCode ==
    /\ (last.op = "ShipDrug" /\ Succeeded /\ last.fault # "event")
          => Emitted(last) = "DrugShipped"
    /\ (last.op = "RecallDrug" /\ Succeeded /\ last.fault # "event")
          => Emitted(last) = "DrugRecalled"
    /\ ~Succeeded => Emitted(last) = ""
    /\ last.op \in {"RegisterDrug", "TrackDrug"} => Emitted(last) = ""
    /\ (ShipPermitted \/ RecallPermitted) => (Succeeded /\ store # prev)

C17_Witness ==
    /\ last.op = "RecallDrug"
    /\ Succeeded
    /\ Emitted(last) = "DrugRecalled"
    /\ After.IsRecalled
    /\ ~Before.IsRecalled

(***************************************************************************)
(* C18: the status of a record only moves forward.  Every stored status is *)
(* InProduction, InTransit or Recalled; a record that has left             *)
(* InProduction never has that status again; and along the path            *)
(* InProduction, InTransit, Delivered no invocation moves a record         *)
(* backwards.                                                              *)
(***************************************************************************)
StatusRank(status) ==
    IF status = "InProduction" THEN 1
    ELSE IF status = "InTransit" THEN 2
    ELSE IF status = "Delivered" THEN 3
    ELSE 0

C18_StatusForwardOnly ==
    /\ \A k \in DOMAIN store :
          Rec(store, k).Status \in {"InProduction", "InTransit", "Recalled"}
    /\ \A k \in DOMAIN prev :
          LET before == Rec(prev, k).Status
              after == Rec(store, k).Status
          IN /\ before # "InProduction" => after # "InProduction"
             /\ (StatusRank(before) > 0 /\ StatusRank(after) > 0)
                   => StatusRank(before) <= StatusRank(after)

C18_Witness ==
    /\ last.op = "ShipDrug"
    /\ Succeeded
    /\ Addressed
    /\ Before.Status = "InTransit"
    /\ After.Status = "InTransit"
    /\ After.CurrentOwner # Before.CurrentOwner

(***************************************************************************)
(* C19: the custody chain in history agrees with the record.  The first    *)
(* event is Created by the manufacturer, each Shipped event's from-party   *)
(* is the to-party of the Shipped event before it (the manufacturer when   *)
(* there is none), and CurrentOwner is the to-party of the last Shipped    *)
(* event (the manufacturer when there is none).                            *)
(***************************************************************************)
ShippedEvents(history) == SelectSeq(history, LAMBDA e : EventKind(e) = "Shipped")

C19_CustodyChainConsistent ==
    \A k \in DOMAIN store :
        LET drug == Rec(store, k)
            shipped == ShippedEvents(drug.History)
        IN /\ Len(drug.History) >= 1
           /\ EventKind(drug.History[1]) = "Created"
           /\ FromParty(drug.History[1]) = drug.Manufacturer
           /\ \A i \in 1..Len(shipped) :
                 FromParty(shipped[i]) =
                     IF i = 1 THEN drug.Manufacturer ELSE ToParty(shipped[i - 1])
           /\ drug.CurrentOwner =
                 IF shipped = <<>> THEN drug.Manufacturer
                 ELSE ToParty(shipped[Len(shipped)])

(***************************************************************************)
(* C20: the recall data of a record agree.  IsRecalled is true exactly     *)
(* when InspectionNotes is non-empty, there are as many inspection notes   *)
(* as Recalled events in history, history has one entry for the creation   *)
(* and one for each committed ShipDrug and RecallDrug on the record, and   *)
(* Status is Recalled exactly when IsRecalled is true.                     *)
(***************************************************************************)
CommittedCount(drugID, op) ==
    Cardinality({i \in 1..Len(log) : log[i].drugID = drugID /\ log[i].op = op})

RecalledEvents(history) == SelectSeq(history, LAMBDA e : EventKind(e) = "Recalled")

C20_RecallDataAgree ==
    \A k \in DOMAIN store :
        LET drug == Rec(store, k) IN
        /\ drug.IsRecalled <=> (drug.InspectionNotes # <<>>)
        /\ Len(drug.InspectionNotes) = Len(RecalledEvents(drug.History))
        /\ Len(drug.History) =
              1 + CommittedCount(k, "ShipDrug") + CommittedCount(k, "RecallDrug")
        /\ (drug.Status = "Recalled") <=> drug.IsRecalled
(***************************************************************************)
(* C16: under concurrent submission with per-key atomic commit, the        *)
(* history of a record is exactly the history lines of the transactions    *)
(* committed on its drug ID, each once and in commit order, and at most    *)
(* one RegisterDrug commits per drug ID.                                   *)
(***************************************************************************)
CommittedOn(drugID) == SelectSeq(log, LAMBDA e : e.drugID = drugID)

C16_HistoryIsCommitOrder ==
    /\ \A k \in DOMAIN store :
          LET committed == CommittedOn(k)
              history == Rec(store, k).History
          IN /\ Len(history) = Len(committed)
             /\ \A i \in 1..Len(committed) : history[i] = committed[i].entry
             /\ committed[1].op = "RegisterDrug"
    /\ \A k \in ConcurrentIDs :
          /\ CommittedCount(k, "RegisterDrug") <= 1
          /\ k \notin DOMAIN store => CommittedOn(k) = << >>

C16_Witness ==
    /\ last.result = ErrConflict
    /\ last.op = "ShipDrug"
    /\ Addressed
    /\ After.IsRecalled
    /\ Len(After.History) = 2
====
